---- MODULE Spec2Model ----
(***************************************************************************)
(* The hawkBit update agent of subsys/mgmt/hawkbit/hawkbit.c as a state    *)
(* machine: hawkbit_init, the autohandler work item, and hawkbit_probe     *)
(* split at its HTTP requests.  The server's documents, the transport's    *)
(* body slices and the results of the bootloader, flash and NVS calls are  *)
(* the inputs, drawn from small sets.                                      *)
(***************************************************************************)
EXTENDS Integers, Sequences, FiniteSets, TLC

(***************************************************************************)
(* Bounds of the model.                                                    *)
(***************************************************************************)
\* Action ids the server uses are -1 .. MaxId (0 and -1 are the invalid ones).
MaxId == 1
\* A response body arrives in at most MaxSlices receive buffers.
MaxSlices == 2

(***************************************************************************)
(* Program constants.                                                      *)
(***************************************************************************)
CANCEL_BASE_SIZE == 50
RECV_BUFFER_SIZE == 640
DOWNLOAD_HTTP_SIZE == 200
DEPLOYMENT_BASE_SIZE == 50
RESPONSE_BUFFER_SIZE == 1100
MSEC_PER_SEC == 1000
\* hawkbit_priv.h: the length of "HH:MM:SS", used at hawkbit.c:379.
HAWKBIT_SLEEP_LENGTH == 8
\* FLASH_AREA_SIZE(image_1), a devicetree value; only the comparison at
\* hawkbit.c:525 reads it.
SLOT1_SIZE == 2000

\* enum hawkbit_response (include/mgmt/hawkbit.h).
HAWKBIT_NETWORKING_ERROR == "NetworkingError"
HAWKBIT_UNCONFIRMED_IMAGE == "UnconfirmedImage"
HAWKBIT_METADATA_ERROR == "MetadataError"
HAWKBIT_DOWNLOAD_ERROR == "DownloadError"
HAWKBIT_OK == "Ok"
HAWKBIT_UPDATE_INSTALLED == "UpdateInstalled"
HAWKBIT_NO_UPDATE == "NoUpdate"
HAWKBIT_CANCEL_UPDATE == "CancelUpdate"

OutcomeCode ==
  { HAWKBIT_NETWORKING_ERROR, HAWKBIT_UNCONFIRMED_IMAGE, HAWKBIT_METADATA_ERROR,
    HAWKBIT_DOWNLOAD_ERROR, HAWKBIT_OK, HAWKBIT_UPDATE_INSTALLED,
    HAWKBIT_NO_UPDATE, HAWKBIT_CANCEL_UPDATE }

\* The enumerator whose value is 0: what code_status holds after
\* memset(&hb_context, 0, ...) until something assigns it.
ZeroStatus == HAWKBIT_NETWORKING_ERROR

(***************************************************************************)
(* uint32_t values as two 16-bit limbs (the checker's integers are 32-bit  *)
(* signed, so 2^32 cannot be written).                                     *)
(***************************************************************************)
\* The conversion of a C int to uint32_t (two's complement).
U32(n) == [hi |-> (n \div 65536) % 65536, lo |-> n % 65536]

\* a * k mod 2^32 for 0 <= k < 2^15.
U32Mul(a, k) ==
  [hi |-> (a.hi * k + ((a.lo * k) \div 65536)) % 65536,
   lo |-> (a.lo * k) % 65536]

\* a > 0 as unsigned.
U32Positive(a) == a.hi # 0 \/ a.lo # 0

(***************************************************************************)
(* Documents the server sends.  An absent (NULL) string or href is the     *)
(* record [null |-> TRUE].                                                 *)
(***************************************************************************)
NULL == [null |-> TRUE]

\* A sleep string: its strlen and what strtol reads at offsets 0, 3 and 6.
SleepStr(len, hh, mm, ss) ==
  [null |-> FALSE, len |-> len, hh |-> hh, mm |-> mm, ss |-> ss]

\* NULL (absent), "5m", "00:05:00", "00:00:01", "00:00:00", "-1:00:00".
SleepStrings ==
  { NULL, SleepStr(2, 5, 0, 0), SleepStr(8, 0, 5, 0), SleepStr(8, 0, 0, 1),
    SleepStr(8, 0, 0, 0), SleepStr(8, -1, 0, 0) }

\* A cancelAction href: whether it holds the marker "cancelAction/", the
\* token strtok finds after it (<<>>: none; <<v>>: a token whose strtol value
\* is v, 0 also standing for a non-numeric token), and how many more
\* characters follow.
CancelHref(marker, tok, pad) ==
  [null |-> FALSE, marker |-> marker, tok |-> tok, pad |-> pad]

CancelHrefs ==
  { NULL, CancelHref(FALSE, <<1>>, 0), CancelHref(TRUE, <<>>, 0),
    CancelHref(TRUE, <<0>>, 0), CancelHref(TRUE, <<MaxId>>, 40) }
    \cup { CancelHref(TRUE, <<t>>, 0) : t \in 1 .. MaxId }

\* A deploymentBase or download-http href: whether it holds the marker
\* ("deploymentBase/", "/DEFAULT/controller/v1") and how many characters
\* follow the marker.
Href(marker, pad) == [null |-> FALSE, marker |-> marker, pad |-> pad]

DeploymentHrefs == { NULL, Href(FALSE, 5), Href(TRUE, 5), Href(TRUE, 40) }

\* A configData href is only tested for presence.
ConfigHrefs == { NULL, [null |-> FALSE] }

DownloadHrefs == { NULL, Href(FALSE, 20), Href(TRUE, 20), Href(TRUE, 190) }

\* The control (base poll) document, struct hawkbit_ctl_res.
CtlRes(sleep, cancel, config, dep) ==
  [sleep |-> sleep, cancelAction |-> cancel, configData |-> config,
   deploymentBase |-> dep]

\* The documents drawn: every sleep string with nothing to do, and a short
\* and an absent sleep string with every cancel link (over an absent or a
\* well-formed deployment link) and with every deployment link.
CtlDocs ==
  { CtlRes(s, NULL, g, NULL) : s \in SleepStrings, g \in ConfigHrefs }
    \cup { CtlRes(s, c, g, d) :
             s \in {NULL, SleepStr(8, 0, 0, 1)}, c \in CancelHrefs \ {NULL},
             g \in ConfigHrefs, d \in {NULL, Href(TRUE, 5)} }
    \cup { CtlRes(s, NULL, g, d) :
             s \in {NULL, SleepStr(8, 0, 0, 1)}, g \in ConfigHrefs,
             d \in DeploymentHrefs }

\* The deployment document, struct hawkbit_dep_res: chunks[0] and its
\* artifacts[0] are the only elements the code reads.
DepRes(id, nc, part, na, size, href) ==
  [id |-> id, num_chunks |-> nc, part |-> part, num_artifacts |-> na,
   size |-> size, download_http |-> href]

\* Fields the code never reaches (behind a failed id, count or part check)
\* are held at one value.
DepDocs ==
  { DepRes(-1, 1, "bApp", 1, 1024, Href(TRUE, 20)) }
    \cup { DepRes(i, nc, "bApp", 1, 1024, Href(TRUE, 20)) :
             i \in 0 .. MaxId, nc \in {0, 2} }
    \cup { DepRes(i, 1, "bOther", 1, 1024, Href(TRUE, 20)) : i \in 0 .. MaxId }
    \cup { DepRes(i, 1, "bApp", na, 1024, Href(TRUE, 20)) :
             i \in 0 .. MaxId, na \in {0, 2} }
    \cup { DepRes(i, 1, "bApp", 1, sz, h) :
             i \in 0 .. MaxId, sz \in {1024, SLOT1_SIZE + 1},
             h \in DownloadHrefs }

(***************************************************************************)
(* Pure helpers of hawkbit.c.  Return values are 0 or a negative errno:    *)
(* -5 EIO, -12 ENOMEM, -19 ENODEV, -22 EINVAL, -28 ENOSPC.                 *)
(***************************************************************************)
\* strlen of a marker literal.
StrLen(marker) ==
  CASE marker = "cancelAction/" -> 13
    [] marker = "deploymentBase/" -> 15
    [] marker = "/DEFAULT/controller/v1" -> 22

\* Characters of a decimal token (single digits here, with a sign if any).
TokLen(tok) == IF tok = <<>> THEN 0 ELSE IF tok[1] < 0 THEN 2 ELSE 1

hawkbit_time2sec(s) ==
  LET sec == s.hh * (60 * 60) + s.mm * 60 + s.ss
  IN  IF sec < 0 THEN -1 ELSE sec

\* The decoded seconds stored without the conversion to milliseconds.
UpdateSleepSeconds(sleep, cur_poll_sleep) ==
  IF sleep.len # HAWKBIT_SLEEP_LENGTH
  THEN cur_poll_sleep
  ELSE LET sleep_time == U32(hawkbit_time2sec(sleep))
       IN  IF U32Positive(sleep_time) /\ cur_poll_sleep # sleep_time
           THEN sleep_time
           ELSE cur_poll_sleep

\* The new value of poll_sleep.
hawkbit_update_sleep(sleep, cur_poll_sleep) ==
  IF sleep.len # HAWKBIT_SLEEP_LENGTH
  THEN cur_poll_sleep
  ELSE LET sleep_time == U32(hawkbit_time2sec(sleep))
       IN  IF U32Positive(sleep_time)
              /\ cur_poll_sleep # U32Mul(sleep_time, MSEC_PER_SEC)
           THEN U32Mul(sleep_time, MSEC_PER_SEC)
           ELSE cur_poll_sleep

\* [ret, cancel_base, action_id]: cancel_base is <<>> (the empty string) or
\* the copied suffix; action_id is hb_context.action_id after the call
\* (old_id when the call does not reach the assignment).
hawkbit_find_cancelAction_base(href, old_id) ==
  IF href.null
  THEN [ret |-> 0, cancel_base |-> <<>>, action_id |-> old_id]
  ELSE IF ~href.marker
  THEN [ret |-> -22, cancel_base |-> <<>>, action_id |-> old_id]
  ELSE IF StrLen("cancelAction/") + TokLen(href.tok) + href.pad
            > CANCEL_BASE_SIZE - 1
  THEN [ret |-> -12, cancel_base |-> <<>>, action_id |-> old_id]
  ELSE LET copied == <<"cancelAction", href.tok, href.pad>>
       IN  IF href.tok = <<>>
           THEN [ret |-> -22, cancel_base |-> copied, action_id |-> old_id]
           ELSE IF href.tok[1] <= 0
           THEN [ret |-> -22, cancel_base |-> copied,
                 action_id |-> href.tok[1]]
           ELSE [ret |-> 0, cancel_base |-> copied, action_id |-> href.tok[1]]

\* A lookup that leaves a suffix in deployment_base when there is no link.
FindDeploymentBaseStale(href) ==
  [ret |-> 0, deployment_base |-> <<"deploymentBase", 5>>]

\* [ret, deployment_base]: deployment_base is <<>> (the empty string) or the
\* copied suffix.
hawkbit_find_deployment_base(href) ==
  IF href.null
  THEN [ret |-> 0, deployment_base |-> <<>>]
  ELSE IF ~href.marker
  THEN [ret |-> -22, deployment_base |-> <<>>]
  ELSE IF StrLen("deploymentBase/") + href.pad > DEPLOYMENT_BASE_SIZE - 1
  THEN [ret |-> -12, deployment_base |-> <<>>]
  ELSE [ret |-> 0, deployment_base |-> <<"deploymentBase", href.pad>>]

\* The id check of hawkbit_parse_deployment.
DeploymentIdRejected(action_id) == action_id < 0

\* The size check of hawkbit_parse_deployment.
ArtifactTooBig(size) == size > SLOT1_SIZE

\* [ret, action_id, json_action_id, download_http, file_size]; old_json_id is
\* hb_context.json_action_id before the call.
hawkbit_parse_deployment(res, old_json_id) ==
  LET fail(e, jid) ==
        [ret |-> e, action_id |-> res.id, json_action_id |-> jid,
         download_http |-> <<>>, file_size |-> 0]
  IN  IF DeploymentIdRejected(res.id) THEN fail(-22, old_json_id)
      ELSE IF res.num_chunks # 1 THEN fail(-28, res.id)
      ELSE IF res.part # "bApp" THEN fail(-22, res.id)
      ELSE IF res.num_artifacts # 1 THEN fail(-22, res.id)
      ELSE IF ArtifactTooBig(res.size) THEN fail(-28, res.id)
      ELSE IF res.download_http.null THEN fail(-22, res.id)
      ELSE IF ~res.download_http.marker THEN fail(-22, res.id)
      ELSE IF StrLen("/DEFAULT/controller/v1") + res.download_http.pad
                > DOWNLOAD_HTTP_SIZE - 1
      THEN fail(-12, res.id)
      ELSE [ret |-> 0, action_id |-> res.id, json_action_id |-> res.id,
            download_http |->
              <<"/DEFAULT/controller/v1", res.download_http.pad>>,
            file_size |-> res.size]

(***************************************************************************)
(* State.                                                                  *)
(***************************************************************************)
VARIABLES
  pc,                   \* where the device is: boot, between cycles, a step of hawkbit_probe
  image_confirmed,      \* bootloader: the running image is marked permanent
  upgrade_pending,      \* bootloader: boot_request_upgrade(TEST) is armed
  slot1,                \* the alternate slot: "erased" or "written"
  nvs,                  \* the record at ADDRESS_ID: <<>> (never written) or <<id>>
  poll_sleep,           \* static uint32_t poll_sleep (ms)
  response_buffer_size, \* static size_t response_buffer_size of response_cb
  hb_context,           \* static struct hawkbit_context (at zero between cycles)
  hawkbit_results,      \* static union hawkbit_results (at zero between cycles)
  probe,                \* the locals of hawkbit_probe
  work,                 \* hawkbit_work_handle: <<>> (idle) or <<delay>>
  cyc,                  \* history of the current cycle
  installs,             \* history: successful boot_request_upgrade calls per action id
  init_calls,           \* history: what the last hawkbit_init did and returned
  app                   \* the application thread: "idle", or "probing" inside its own call of hawkbit_probe

vars ==
  << pc, image_confirmed, upgrade_pending, slot1, nvs, poll_sleep,
     response_buffer_size, hb_context, hawkbit_results, probe, work, cyc,
     installs, init_calls, app >>

\* errno values hawkbit_init returns.
EIO == 5
ENODEV == 19

\* errno values send_request and the JSON encoder return.
ENOMEM == 12
EINVAL == 22

\* memset(&hb_context, 0, sizeof(hb_context)).
ZeroContext ==
  [action_id |-> 0, json_action_id |-> 0, code_status |-> ZeroStatus,
   dl |-> [download_status |-> 0, download_progress |-> 0,
           downloaded_size |-> 0, http_content_size |-> 0],
   response_data |-> [state |-> "null", size |-> 0],
   flash_bytes |-> 0, semaphore |-> 0]

\* The zero-initialised locals of hawkbit_probe.
ZeroLocals ==
  [cancel_base |-> <<>>, download_http |-> <<>>, deployment_base |-> <<>>,
   file_size |-> 0]

ZeroResults == [kind |-> "zero"]

\* The history of a cycle that has not started.
NoCycle ==
  [confirmed_at_start |-> TRUE, nvs_at_start |-> <<>>, opened |-> FALSE,
   sock |-> "none", closes |-> 0, reqs |-> <<>>, base |-> <<>>, dep |-> <<>>,
   flash_writes |-> 0, upgrade_calls |-> 0, upgrade_ok |-> FALSE,
   acid_writes |-> 0, rebooted |-> FALSE, steps |-> <<>>,
   content_size |-> 0, flash_failed |-> FALSE, json_error |-> FALSE,
   sleep_changed |-> FALSE, json_whole |-> 0, slices |-> <<>>,
   overrun |-> FALSE]

\* CONFIG_HAWKBIT_POLL_INTERVAL is 5 by default; both branches of the #if
\* give 300 s then.
DefaultPollSleep == U32Mul(U32(300), MSEC_PER_SEC)

\* hawkbit_init has not run since the boot, or the application has gone on.
NoInit == [image_ok |-> TRUE, ret |-> 0, calls |-> <<>>]

Init ==
  /\ pc = "boot"
  /\ image_confirmed \in BOOLEAN
  /\ upgrade_pending = FALSE
  /\ slot1 = "erased"
  /\ nvs = <<>>
  /\ poll_sleep = DefaultPollSleep
  /\ response_buffer_size = RESPONSE_BUFFER_SIZE
  /\ hb_context = ZeroContext
  /\ hawkbit_results = ZeroResults
  /\ probe = ZeroLocals
  /\ work = <<>>
  /\ cyc = NoCycle
  /\ installs = [i \in 1 .. MaxId |-> 0]
  /\ init_calls = NoInit
  /\ app = "idle"

(***************************************************************************)
(* hawkbit_init and the work item.                                         *)
(***************************************************************************)
\* A failed boot_write_img_confirmed that is not noticed.
ConfirmIgnored(ret) == FALSE

\* The test of boot_write_img_confirmed's result.
ConfirmFailed(ret) == ret < 0

\* hawkbit_init: the inputs are the results of flash_get_page_info_by_offs,
\* nvs_init, boot_write_img_confirmed and boot_erase_img_bank.  The
\* application then goes on to start the autohandler.
hawkbit_init ==
  /\ pc = "boot"
  /\ UNCHANGED app
  /\ \E page_ok \in BOOLEAN, nvs_ok \in BOOLEAN, confirm_ret \in {0, -1},
        erase_ret \in {0, -1} :
       LET confirm == [fn |-> "boot_write_img_confirmed", ret |-> confirm_ret]
           erase == [fn |-> "boot_erase_img_bank", ret |-> erase_ret]
           done(ret, calls) ==
             init_calls' = [image_ok |-> image_confirmed, ret |-> ret,
                            calls |-> calls]
       IN  IF ~page_ok
           THEN /\ done(-EIO, <<>>)
                /\ UNCHANGED << image_confirmed, slot1 >>
           ELSE IF ~nvs_ok
           THEN /\ done(-ENODEV, <<>>)
                /\ UNCHANGED << image_confirmed, slot1 >>
           ELSE IF image_confirmed
           THEN /\ done(0, <<>>)
                /\ UNCHANGED << image_confirmed, slot1 >>
           ELSE IF ConfirmFailed(confirm_ret)
           THEN /\ done(confirm_ret, << confirm >>)
                /\ UNCHANGED << image_confirmed, slot1 >>
           ELSE /\ done(erase_ret, << confirm, erase >>)
                /\ image_confirmed' = (confirm_ret = 0)
                /\ slot1' = IF erase_ret = 0 THEN "erased" ELSE slot1
  /\ pc' = "booted"
  /\ UNCHANGED << upgrade_pending, nvs, poll_sleep,
                  response_buffer_size, hb_context, hawkbit_results, probe,
                  work, cyc, installs >>

\* hawkbit_autohandler: k_work_reschedule(&hawkbit_work_handle, K_NO_WAIT).
hawkbit_autohandler ==
  /\ pc = "booted"
  /\ init_calls' = NoInit
  /\ UNCHANGED app
  /\ work' = << U32(0) >>
  /\ pc' = "scheduled"
  /\ UNCHANGED << image_confirmed, upgrade_pending, slot1, nvs,
                  poll_sleep, response_buffer_size, hb_context,
                  hawkbit_results, probe, cyc, installs >>

cleanup_connection(cy) ==
  [cy EXCEPT !.sock = "closed", !.closes = @ + 1]

\* The two exit labels of hawkbit_probe: "cleanup" closes the socket and
\* falls into "error", which frees the response buffer and returns.
ProbeExit(ctx, cy, label) ==
  /\ hb_context' = [ctx EXCEPT !.response_data.state = "freed"]
  /\ cyc' = IF label = "cleanup" THEN cleanup_connection(cy) ELSE cy
  /\ pc' = "ret"

\* The test of the running image left out.
ImageCheckSkipped(confirmed) == FALSE

\* The test at the head of hawkbit_probe.
ImageUnconfirmed(confirmed) == ~confirmed

\* hawkbit_probe up to the first request: the inputs are the results of
\* hawkbit_get_firmware_version, hawkbit_get_device_identity and
\* start_http_client (resolve, socket, connect).
probe_start ==
  /\ pc = "scheduled"
  /\ UNCHANGED << init_calls, app >>
  /\ work' = <<>>
  /\ probe' = ZeroLocals
  /\ LET ctx == [ZeroContext EXCEPT
                   !.response_data =
                     [state |-> "alloc", size |-> RESPONSE_BUFFER_SIZE]]
         cy == [NoCycle EXCEPT !.confirmed_at_start = image_confirmed,
                               !.nvs_at_start = nvs]
     IN  \E fw_ok \in BOOLEAN, id_ok \in BOOLEAN,
            net \in {"ok", "resolve", "socket", "connect"} :
           IF ImageUnconfirmed(image_confirmed)
           THEN ProbeExit([ctx EXCEPT !.code_status =
                                        HAWKBIT_UNCONFIRMED_IMAGE],
                          cy, "error")
           ELSE IF ~fw_ok \/ ~id_ok
           THEN ProbeExit([ctx EXCEPT !.code_status = HAWKBIT_METADATA_ERROR],
                          cy, "error")
           ELSE IF net # "ok"
           THEN ProbeExit([ctx EXCEPT !.code_status =
                                        HAWKBIT_NETWORKING_ERROR],
                          cy, "error")
           ELSE /\ hb_context' = ctx
                /\ cyc' = [cy EXCEPT !.opened = TRUE, !.sock = "open"]
                /\ pc' = "poll_base"
  /\ UNCHANGED << image_confirmed, upgrade_pending, slot1, nvs,
                  poll_sleep, response_buffer_size, hawkbit_results,
                  installs >>

(***************************************************************************)
(* The transport's answers and response_cb.                                *)
(***************************************************************************)
\* Body bytes one call of response_cb is given: a receive buffer
\* (RECV_BUFFER_SIZE bytes, the first with the headers in it) nearly full.
SliceLens == { RECV_BUFFER_SIZE - 40 }

SliceSeqs == UNION { [1 .. k -> SliceLens] : k \in 0 .. MaxSlices }

RECURSIVE Sum(_)
Sum(q) == IF q = <<>> THEN 0 ELSE q[1] + Sum(Tail(q))

\* What http_client_req does with a GET of a JSON document: its return value
\* (0, or -1 when sending or receiving fails), the body bytes of each call
\* of response_cb (the last call is the HTTP_DATA_FINAL one exactly when
\* ret = 0), by how much Content-Length exceeds the bytes sent, and whether
\* realloc and json_obj_parse succeed.  An input that cannot matter (realloc
\* without a slice to append, the parse of a truncated body) is held at TRUE.
JsonResponses ==
  { x \in [ret : {0, -1}, lens : SliceSeqs, extra : {0, 1},
           realloc_ok : BOOLEAN, parse_ok : BOOLEAN] :
      /\ x.ret = 0 => x.lens # <<>>
      /\ ~x.realloc_ok => Len(x.lens) + x.ret >= 2
      /\ ~x.parse_ok => x.ret = 0 /\ Len(x.lens) = 1 /\ x.extra = 0 }

\* One call of response_cb for HAWKBIT_PROBE or HAWKBIT_PROBE_DEPLOYMENT_BASE
\* (the two cases have the same body).  a holds the variables the call reads
\* and writes; closes counts cleanup_connection calls; broke is the break
\* after a failed realloc.
response_cb_json(a, data_len, final, content_length, realloc_ok, parse_ok) ==
  LET first == a.http_content_size = 0
      a1 == IF first
            THEN [a EXCEPT !.body_len = data_len,
                           !.http_content_size = content_length]
            ELSE a
      append == ~first /\ ~final
      a2 == IF append THEN [a1 EXCEPT !.body_len = @ + data_len] ELSE a1
      grow == append /\ a2.body_len > a2.response_buffer_size
      a3 == IF grow THEN [a2 EXCEPT !.response_buffer_size = @ * 2] ELSE a2
  IN  IF grow /\ ~realloc_ok
      THEN [a3 EXCEPT !.code_status = HAWKBIT_METADATA_ERROR,
                      !.closes = @ + 1, !.broke = TRUE]
      ELSE LET a4 == IF grow
                     THEN [a3 EXCEPT !.response_data.size =
                                       a3.response_buffer_size]
                     ELSE a3
           IN  IF final
               THEN [a4 EXCEPT
                       !.code_status =
                         IF a4.http_content_size # a4.body_len \/ ~parse_ok
                         THEN HAWKBIT_METADATA_ERROR ELSE @,
                       !.parsed = (a4.http_content_size = a4.body_len)
                                    /\ parse_ok,
                       !.body_len = 0]
               ELSE a4

\* The call of response_cb that took a to b wrote past the allocation of
\* response_data: the strncpy of the first slice, the strncat of a later
\* one with its NUL, or the NUL stored at body_len on the final call.
response_cb_overrun(a, b, data_len, final) ==
  LET first == a.http_content_size = 0
      append == ~first /\ ~final
      body_len == IF first THEN data_len
                  ELSE IF append THEN a.body_len + data_len
                  ELSE a.body_len
  IN  \/ first /\ data_len > a.response_data.size
      \/ /\ ~b.broke
         /\ append \/ final
         /\ body_len + 1 > b.response_data.size

\* b, the state after a call of response_cb, with the record of a write past
\* the allocation.
response_cb_written(a, b, data_len, final) ==
  [b EXCEPT !.overrun = @ \/ response_cb_overrun(a, b, data_len, final)]

\* The calls of response_cb one request makes, in order; once the callback
\* has closed the socket the transport delivers nothing more.
RECURSIVE JsonCalls(_, _, _)
JsonCalls(a, resp, i) ==
  IF i > Len(resp.lens) \/ a.broke
  THEN a
  ELSE JsonCalls(response_cb_written(
                   a,
                   response_cb_json(a, resp.lens[i],
                                    resp.ret = 0 /\ i = Len(resp.lens),
                                    Sum(resp.lens) + resp.extra,
                                    resp.realloc_ok, resp.parse_ok),
                   resp.lens[i], resp.ret = 0 /\ i = Len(resp.lens)),
                 resp, i + 1)

\* http_client_req for a JSON GET: the state after its callbacks and its
\* return value (a socket closed under it makes it fail).
JsonRequest(ctx, resp) ==
  LET After(a) ==
        [ctx |-> [ctx EXCEPT !.dl.http_content_size = a.http_content_size,
                             !.response_data = a.response_data,
                             !.code_status = a.code_status],
         response_buffer_size |-> a.response_buffer_size,
         closes |-> a.closes,
         parsed |-> a.parsed,
         overrun |-> a.overrun,
         ret |-> IF a.broke THEN -1 ELSE resp.ret]
  IN  After(JsonCalls([http_content_size |-> ctx.dl.http_content_size,
                           body_len |-> 0,
                           response_buffer_size |-> response_buffer_size,
                           response_data |-> ctx.response_data,
                           code_status |-> ctx.code_status,
                           closes |-> 0, broke |-> FALSE, parsed |-> FALSE,
                           overrun |-> FALSE],
                          resp, 1))

\* The number of slices of a response that came whole: every call of
\* response_cb made, the lengths summing to Content-Length, the body one
\* that json_obj_parse accepts; 0 for any other response.
WholeSlices(resp, ret) ==
  IF ret = 0 /\ resp.extra = 0 /\ resp.parse_ok THEN Len(resp.lens) ELSE 0

\* What http_client_req does with the artifact GET: as JsonResponses, with
\* the index of the call whose flash_img_buffered_write fails (0: none).
DownloadResponses ==
  { x \in [ret : {0, -1}, lens : SliceSeqs, extra : {0, 1},
           flash_fail : 0 .. MaxSlices] :
      /\ x.ret = 0 => x.lens # <<>>
      /\ x.flash_fail <= Len(x.lens) }

\* An append whose bytes are counted twice.
FlashWriteCountedTwice(bytes_written, len, ok) ==
  IF ok THEN bytes_written + len + len ELSE bytes_written

\* flash_img_buffered_write and flash_img_bytes_written: an append that
\* succeeds adds its bytes to the count.
flash_img_buffered_write(bytes_written, len, ok) ==
  IF ok THEN bytes_written + len ELSE bytes_written

\* One call of response_cb for HAWKBIT_DOWNLOAD.
response_cb_download(a, data_len, final, content_length, flash_ok) ==
  LET a1 == IF a.http_content_size = 0
            THEN [a EXCEPT !.http_content_size = content_length]
            ELSE a
      a2 == [a1 EXCEPT
               !.body_len = data_len,
               !.flash_bytes = flash_img_buffered_write(@, data_len, flash_ok),
               !.flash_writes = @ + 1,
               !.code_status = IF flash_ok THEN @ ELSE HAWKBIT_DOWNLOAD_ERROR]
      downloaded == (a2.flash_bytes * 100) \div a2.http_content_size
  IN  [a2 EXCEPT
         !.downloaded_size = a2.flash_bytes,
         !.download_progress = IF downloaded > @ THEN downloaded ELSE @,
         !.semaphore = IF final THEN 1 ELSE @]

RECURSIVE DownloadCalls(_, _, _)
DownloadCalls(a, resp, i) ==
  IF i > Len(resp.lens)
  THEN a
  ELSE DownloadCalls(response_cb_download(a, resp.lens[i],
                                          resp.ret = 0 /\ i = Len(resp.lens),
                                          Sum(resp.lens) + resp.extra,
                                          resp.flash_fail # i),
                     resp, i + 1)

\* hb_context.dl after each call of response_cb for the artifact GET.
RECURSIVE DownloadSlices(_, _, _)
DownloadSlices(a, resp, i) ==
  IF i > Len(resp.lens)
  THEN <<>>
  ELSE LET b == response_cb_download(a, resp.lens[i],
                                     resp.ret = 0 /\ i = Len(resp.lens),
                                     Sum(resp.lens) + resp.extra,
                                     resp.flash_fail # i)
       IN  << [http_content_size |-> b.http_content_size,
               downloaded_size |-> b.downloaded_size,
               download_progress |-> b.download_progress] >>
             \o DownloadSlices(b, resp, i + 1)

(***************************************************************************)
(* send_request: the request it hands to http_client_req.                  *)
(***************************************************************************)
hawkbit_status_finished(f) ==
  CASE f = "HAWKBIT_STATUS_FINISHED_SUCCESS" -> "success"
    [] f = "HAWKBIT_STATUS_FINISHED_FAILURE" -> "failure"
    [] f = "HAWKBIT_STATUS_FINISHED_NONE" -> "none"
    [] OTHER -> "NULL"

hawkbit_status_execution(e) ==
  CASE e = "HAWKBIT_STATUS_EXEC_CLOSED" -> "closed"
    [] e = "HAWKBIT_STATUS_EXEC_PROCEEDING" -> "proceeding"
    [] e = "HAWKBIT_STATUS_EXEC_CANCELED" -> "canceled"
    [] e = "HAWKBIT_STATUS_EXEC_SCHEDULED" -> "scheduled"
    [] e = "HAWKBIT_STATUS_EXEC_REJECTED" -> "rejected"
    [] e = "HAWKBIT_STATUS_EXEC_RESUMED" -> "resumed"
    [] e = "HAWKBIT_STATUS_EXEC_NONE" -> "none"
    [] OTHER -> "NULL"

\* The head of send_request: id_ok is the result of
\* hawkbit_get_device_identity; the request is made either way.
IdentityCheck(ctx, id_ok) ==
  IF id_ok THEN ctx ELSE [ctx EXCEPT !.code_status = HAWKBIT_METADATA_ERROR]

\* The request of type `type` to hb_context.url_buffer (url), and what
\* http_client_req returned for it.
send_request(method, type, finished, execution, ctx, url, ret) ==
  [type |-> type, method |-> method, url |-> url, ret |-> ret,
   payload |->
     CASE type = "HAWKBIT_CONFIG_DEVICE" ->
            [mode |-> "merge", VIN |-> "device_id", hwRevision |-> "3",
             cfg_id |-> "", time |-> "",
             execution |-> hawkbit_status_execution(execution),
             finished |-> hawkbit_status_finished(finished)]
       [] type = "HAWKBIT_CLOSE" ->
            [id |-> ctx.action_id, time |-> "",
             execution |-> hawkbit_status_execution(execution),
             finished |-> hawkbit_status_finished(finished)]
       [] type = "HAWKBIT_REPORT" ->
            [id |-> ctx.json_action_id,
             execution |-> hawkbit_status_execution(execution),
             finished |-> hawkbit_status_finished(finished)]
       [] OTHER -> [none |-> TRUE]]

\* A C int returned from a function declared bool.
IntAsBool(v) == v # 0

\* HAWKBIT_REPORT reaches http_client_req: both status strings exist and
\* json_obj_encode_buf returned 0 (encode_ret).
ReportBuilt(fini, exec, encode_ret) ==
  fini # "NULL" /\ exec # "NULL" /\ encode_ret = 0

\* What send_request returns for HAWKBIT_REPORT; ret is the result of
\* http_client_req when the request is made.
send_request_report(fini, exec, encode_ret, ret) ==
  IF fini = "NULL" \/ exec = "NULL" THEN IntAsBool(-EINVAL)
  ELSE IF encode_ret # 0 THEN IntAsBool(encode_ret)
  ELSE ret >= 0

(***************************************************************************)
(* hawkbit_probe from its first request on.                                *)
(***************************************************************************)
\* An error of response_cb that does not stop the cycle.
MetadataErrorIgnored(status) == FALSE

\* The test after the base poll and after the deployment poll: response_cb
\* (or send_request) has set HAWKBIT_METADATA_ERROR.
MetadataFailed(status) == status = HAWKBIT_METADATA_ERROR

\* A deployment link looked at before the cancel link.
CancelAfterDeployment(base) ==
  ~base.cancelAction.null /\ base.deploymentBase.null

\* The test that sends the cycle to the cancel feedback.
HasCancelAction(base) == ~base.cancelAction.null

\* The comparison that prevents a repeated install.
AlreadyInstalled(action_id, json_action_id) == action_id = json_action_id

\* What nvs_read leaves in the uninitialised local action_id: the stored
\* value, or, when the read fails (nothing stored), the indeterminate value
\* the local had.
nvs_read ==
  IF nvs # <<>> THEN { nvs[1] } ELSE (-1) .. (MaxId + 1)

\* hawkbit_find_deployment_base and what follows it up to the deployment
\* request.
FindDeployment(ctx, cy, base) ==
  LET f == hawkbit_find_deployment_base(base.deploymentBase)
  IN  IF f.ret < 0
      THEN /\ ProbeExit([ctx EXCEPT !.code_status = HAWKBIT_METADATA_ERROR],
                        cy, "cleanup")
           /\ UNCHANGED probe
           /\ hawkbit_results' = [kind |-> "base", doc |-> base]
      ELSE IF f.deployment_base = <<>>
      THEN /\ ProbeExit([ctx EXCEPT !.code_status = HAWKBIT_NO_UPDATE],
                        cy, "cleanup")
           /\ UNCHANGED probe
           /\ hawkbit_results' = [kind |-> "base", doc |-> base]
      ELSE /\ hb_context' = [ctx EXCEPT !.dl.http_content_size = 0]
           /\ cyc' = cy
           /\ probe' = [probe EXCEPT !.deployment_base = f.deployment_base]
           /\ hawkbit_results' = ZeroResults
           /\ pc' = "poll_deploy"

\* The base poll and what follows it up to the next request.
probe_poll_base ==
  /\ pc = "poll_base"
  /\ UNCHANGED << init_calls, app >>
  /\ \E resp \in JsonResponses, id_ok \in BOOLEAN :
       LET ctx0 == IdentityCheck(
                     [hb_context EXCEPT !.dl.http_content_size = 0], id_ok)
           \* r is what the request did.
           Answered(r) ==
             LET req == send_request("GET", "HAWKBIT_PROBE",
                                     "HAWKBIT_STATUS_FINISHED_NONE",
                                     "HAWKBIT_STATUS_EXEC_NONE", ctx0,
                                     [path |-> "base"], r.ret)
                 cy == [cyc EXCEPT !.reqs = Append(@, req),
                                   !.steps = Append(@, "POLL_BASE"),
                                   !.json_error = (r.ret = 0 /\ ~r.parsed),
                                   !.json_whole = WholeSlices(resp, r.ret),
                                   !.overrun = @ \/ r.overrun,
                                   !.closes = @ + r.closes,
                                   !.sock = IF r.closes > 0 THEN "closed" ELSE @]
             IN  /\ response_buffer_size' = r.response_buffer_size
                 /\ IF r.ret < 0
                    THEN /\ ProbeExit([r.ctx EXCEPT !.code_status =
                                                      HAWKBIT_NETWORKING_ERROR],
                                      cy, "cleanup")
                         /\ UNCHANGED << probe, poll_sleep >>
                         /\ hawkbit_results' = ZeroResults
                    ELSE IF MetadataFailed(r.ctx.code_status)
                    THEN /\ ProbeExit(r.ctx, cy, "error")
                         /\ UNCHANGED << probe, poll_sleep >>
                         /\ hawkbit_results' = [kind |-> "junk"]
                    ELSE \E base \in CtlDocs :
                           LET sleep == IF base.sleep.null THEN poll_sleep
                                        ELSE hawkbit_update_sleep(base.sleep,
                                                                  poll_sleep)
                               cy1 == [cy EXCEPT !.base = << base >>,
                                                 !.sleep_changed =
                                                   sleep # poll_sleep]
                           IN  /\ poll_sleep' = sleep
                               /\ IF HasCancelAction(base)
                                  THEN LET f == hawkbit_find_cancelAction_base(
                                                  base.cancelAction,
                                                  r.ctx.action_id)
                                       IN  /\ hb_context' =
                                                [r.ctx EXCEPT
                                                   !.action_id = f.action_id,
                                                   !.dl.http_content_size = 0]
                                           /\ probe' = [probe EXCEPT
                                                          !.cancel_base =
                                                            f.cancel_base]
                                           /\ hawkbit_results' = ZeroResults
                                           /\ cyc' = cy1
                                           /\ pc' = "cancel_ack"
                                  ELSE IF ~base.configData.null
                                  THEN /\ hb_context' =
                                            [r.ctx EXCEPT !.dl.http_content_size = 0]
                                       /\ hawkbit_results' =
                                            [kind |-> "base", doc |-> base]
                                       /\ cyc' = cy1
                                       /\ pc' = "send_config"
                                       /\ UNCHANGED probe
                                  ELSE FindDeployment(r.ctx, cy1, base)
       IN  Answered(JsonRequest(ctx0, resp))
  /\ UNCHANGED << image_confirmed, upgrade_pending, slot1, nvs,
                  work, installs >>

\* The cancel feedback POST; ret is what http_client_req returns.
probe_cancel_ack ==
  /\ pc = "cancel_ack"
  /\ UNCHANGED << init_calls, app >>
  /\ \E ret \in {0, -1}, id_ok \in BOOLEAN :
       LET ctx0 == IdentityCheck(hb_context, id_ok)
           req == send_request("POST", "HAWKBIT_CLOSE",
                               "HAWKBIT_STATUS_FINISHED_SUCCESS",
                               "HAWKBIT_STATUS_EXEC_CLOSED", ctx0,
                               [path |-> "cancel_feedback",
                                cancel_base |-> probe.cancel_base], ret)
           cy == [cyc EXCEPT !.reqs = Append(@, req),
                             !.steps = Append(@, "CANCEL_ACK")]
       IN  ProbeExit([ctx0 EXCEPT
                        !.code_status = IF ret < 0
                                        THEN HAWKBIT_NETWORKING_ERROR
                                        ELSE HAWKBIT_CANCEL_UPDATE],
                     cy, "cleanup")
  /\ UNCHANGED << image_confirmed, upgrade_pending, slot1, nvs,
                  poll_sleep, response_buffer_size, hawkbit_results,
                  probe, work, installs >>

\* The configData PUT and what follows it up to the deployment request.
probe_send_config ==
  /\ pc = "send_config"
  /\ UNCHANGED << init_calls, app >>
  /\ \E ret \in {0, -1}, id_ok \in BOOLEAN :
       LET ctx0 == IdentityCheck(hb_context, id_ok)
           req == send_request("PUT", "HAWKBIT_CONFIG_DEVICE",
                               "HAWKBIT_STATUS_FINISHED_SUCCESS",
                               "HAWKBIT_STATUS_EXEC_CLOSED", ctx0,
                               [path |-> "configData"], ret)
           cy == [cyc EXCEPT !.reqs = Append(@, req),
                             !.steps = Append(@, "SEND_CONFIG")]
       IN  IF ret < 0
           THEN /\ ProbeExit([ctx0 EXCEPT
                                !.code_status = HAWKBIT_NETWORKING_ERROR],
                             cy, "cleanup")
                /\ UNCHANGED << probe, hawkbit_results >>
           ELSE FindDeployment(ctx0, cy, hawkbit_results.doc)
  /\ UNCHANGED << image_confirmed, upgrade_pending, slot1, nvs,
                  poll_sleep, response_buffer_size, work, installs >>

\* The deployment poll, hawkbit_parse_deployment and the comparison with the
\* stored action id.
probe_poll_deploy ==
  /\ pc = "poll_deploy"
  /\ UNCHANGED << init_calls, app >>
  /\ \E resp \in JsonResponses, id_ok \in BOOLEAN :
       LET ctx0 == IdentityCheck(hb_context, id_ok)
           \* r is what the request did.
           Answered(r) ==
             LET req == send_request("GET", "HAWKBIT_PROBE_DEPLOYMENT_BASE",
                                     "HAWKBIT_STATUS_FINISHED_NONE",
                                     "HAWKBIT_STATUS_EXEC_NONE", ctx0,
                                     [path |-> "deployment",
                                      deployment_base |-> probe.deployment_base],
                                     r.ret)
                 cy == [cyc EXCEPT !.reqs = Append(@, req),
                                   !.steps = Append(@, "POLL_DEPLOY"),
                                   !.json_error = (r.ret = 0 /\ ~r.parsed),
                                   !.json_whole = WholeSlices(resp, r.ret),
                                   !.overrun = @ \/ r.overrun,
                                   !.closes = @ + r.closes,
                                   !.sock = IF r.closes > 0 THEN "closed" ELSE @]
             IN  /\ response_buffer_size' = r.response_buffer_size
                 /\ IF r.ret < 0
                    THEN /\ ProbeExit([r.ctx EXCEPT !.code_status =
                                                      HAWKBIT_NETWORKING_ERROR],
                                      cy, "cleanup")
                         /\ UNCHANGED << probe, hawkbit_results >>
                    ELSE IF MetadataFailed(r.ctx.code_status)
                    THEN /\ ProbeExit(r.ctx, cy, "error")
                         /\ UNCHANGED probe
                         /\ hawkbit_results' = [kind |-> "junk"]
                    ELSE \E dep \in DepDocs :
                           LET p == hawkbit_parse_deployment(
                                      dep, r.ctx.json_action_id)
                               ctx1 == [r.ctx EXCEPT
                                          !.dl.http_content_size = 0,
                                          !.action_id = p.action_id,
                                          !.json_action_id = p.json_action_id]
                               cy1 == [cy EXCEPT !.dep = << dep >>]
                           IN  /\ hawkbit_results' = [kind |-> "dep", doc |-> dep]
                               /\ IF p.ret < 0
                                  THEN /\ ProbeExit(ctx1, cy1, "cleanup")
                                       /\ UNCHANGED probe
                                  ELSE /\ probe' = [probe EXCEPT
                                                      !.download_http =
                                                        p.download_http,
                                                      !.file_size = p.file_size]
                                       /\ hb_context' = ctx1
                                       /\ cyc' = cy1
                                       /\ \E action_id \in nvs_read :
                                            pc' = IF AlreadyInstalled(
                                                       action_id,
                                                       ctx1.json_action_id)
                                                  THEN "report"
                                                  ELSE "download"
       IN  Answered(JsonRequest(ctx0, resp))
  /\ UNCHANGED << image_confirmed, upgrade_pending, slot1, nvs,
                  poll_sleep, work, installs >>

\* The feedback POST for a deployment that is already installed.
probe_report ==
  /\ pc = "report"
  /\ UNCHANGED << init_calls, app >>
  /\ \E ret \in {0, -1}, id_ok \in BOOLEAN, encode_ret \in {0, -ENOMEM} :
       LET ctx0 == IdentityCheck(
                     [hb_context EXCEPT !.dl.http_content_size = 0], id_ok)
           fini == hawkbit_status_finished("HAWKBIT_STATUS_FINISHED_SUCCESS")
           exec == hawkbit_status_execution("HAWKBIT_STATUS_EXEC_CLOSED")
           req == send_request("POST", "HAWKBIT_REPORT",
                               "HAWKBIT_STATUS_FINISHED_SUCCESS",
                               "HAWKBIT_STATUS_EXEC_CLOSED", ctx0,
                               [path |-> "deployment_feedback",
                                action_id |-> ctx0.json_action_id], ret)
           cy == [cyc EXCEPT !.reqs = IF ReportBuilt(fini, exec, encode_ret)
                                      THEN Append(@, req) ELSE @,
                             !.steps = Append(@, "REPORT")]
       IN  ProbeExit([ctx0 EXCEPT
                        !.code_status =
                          IF ~send_request_report(fini, exec, encode_ret, ret)
                          THEN HAWKBIT_NETWORKING_ERROR
                          ELSE HAWKBIT_OK],
                     cy, "cleanup")
  /\ UNCHANGED << image_confirmed, upgrade_pending, slot1, nvs,
                  poll_sleep, response_buffer_size, hawkbit_results,
                  probe, work, installs >>

\* hawkbit_device_acid_update: the new content of the store; write_ok is
\* the result of nvs_write.
hawkbit_device_acid_update(new_value, write_ok) ==
  IF write_ok THEN << new_value >> ELSE nvs

\* A flash write error that does not stop the install.
DownloadErrorIgnored(status) == FALSE

\* The test after the artifact GET: response_cb reported a flash write error.
DownloadFailed(status) == status = HAWKBIT_DOWNLOAD_ERROR

\* An upgrade request that always goes through.
UpgradeNeverRejected(up_ok) == FALSE

\* The result of boot_request_upgrade tested with its sense inverted.
UpgradeTestInverted(up_ok) == up_ok

\* boot_request_upgrade(BOOT_UPGRADE_TEST) returned nonzero.
UpgradeRejected(up_ok) == ~up_ok

\* The artifact download, boot_request_upgrade and the update of the stored
\* action id; up_ok and write_ok are the results of boot_request_upgrade and
\* nvs_write.
probe_download ==
  /\ pc = "download"
  /\ UNCHANGED << init_calls, app >>
  /\ \E resp \in DownloadResponses, id_ok \in BOOLEAN, up_ok \in BOOLEAN,
        write_ok \in BOOLEAN :
       LET ctx0 == IdentityCheck(
                     [hb_context EXCEPT !.dl.http_content_size = 0,
                                        !.flash_bytes = 0], id_ok)
           a0 == [http_content_size |-> 0,
                  body_len |-> 0,
                  code_status |-> ctx0.code_status,
                  flash_bytes |-> 0,
                  downloaded_size |-> ctx0.dl.downloaded_size,
                  download_progress |->
                    ctx0.dl.download_progress,
                  flash_writes |-> 0,
                  semaphore |-> ctx0.semaphore]
           a == DownloadCalls(a0, resp, 1)
           ctx1 == [ctx0 EXCEPT
                      !.dl.http_content_size = a.http_content_size,
                      !.dl.downloaded_size = a.downloaded_size,
                      !.dl.download_progress = a.download_progress,
                      !.code_status = a.code_status,
                      !.flash_bytes = a.flash_bytes,
                      !.semaphore = a.semaphore]
           req == send_request("GET", "HAWKBIT_DOWNLOAD",
                               "HAWKBIT_STATUS_FINISHED_NONE",
                               "HAWKBIT_STATUS_EXEC_NONE", ctx0,
                               [path |-> "download",
                                download_http |-> probe.download_http],
                               resp.ret)
           cy == [cyc EXCEPT !.reqs = Append(@, req),
                             !.steps = Append(@, "DOWNLOAD"),
                             !.flash_writes = a.flash_writes,
                             !.content_size = a.http_content_size,
                             !.flash_failed = resp.flash_fail # 0,
                             !.slices = DownloadSlices(a0, resp, 1)]
       IN  /\ slot1' = IF a.flash_bytes > 0 THEN "written" ELSE slot1
           /\ IF resp.ret < 0
              THEN /\ ProbeExit([ctx1 EXCEPT !.code_status =
                                               HAWKBIT_NETWORKING_ERROR],
                                cy, "cleanup")
                   /\ UNCHANGED << upgrade_pending, nvs, installs >>
              ELSE IF DownloadFailed(ctx1.code_status)
              THEN /\ ProbeExit(ctx1, cy, "cleanup")
                   /\ UNCHANGED << upgrade_pending, nvs, installs >>
              ELSE IF UpgradeRejected(up_ok)
              THEN /\ ProbeExit([ctx1 EXCEPT
                                   !.code_status = HAWKBIT_DOWNLOAD_ERROR,
                                   !.dl.http_content_size = 0],
                                [cy EXCEPT !.upgrade_calls = @ + 1,
                                           !.upgrade_ok = up_ok,
                                           !.steps = Append(@, "ARM_BOOT")],
                                "cleanup")
                   /\ UNCHANGED << upgrade_pending, nvs, installs >>
              ELSE /\ ProbeExit([ctx1 EXCEPT
                                   !.code_status = HAWKBIT_UPDATE_INSTALLED,
                                   !.dl.http_content_size = 0],
                                [cy EXCEPT !.upgrade_calls = @ + 1,
                                           !.upgrade_ok = up_ok,
                                           !.acid_writes = @ + 1,
                                           !.steps = Append(Append(@,
                                             "ARM_BOOT"),
                                             "PERSIST_ACTION_ID")],
                                "cleanup")
                   /\ upgrade_pending' = TRUE
                   /\ nvs' = hawkbit_device_acid_update(
                               ctx1.json_action_id, write_ok)
                   /\ installs' =
                        IF ctx1.json_action_id \in DOMAIN installs
                        THEN [installs EXCEPT ![ctx1.json_action_id] =
                                                IF @ < 2 THEN @ + 1 ELSE @]
                        ELSE installs
  /\ UNCHANGED << image_confirmed, poll_sleep,
                  response_buffer_size, hawkbit_results, probe, work >>

\* A reboot also after an installed update.
RebootOnInstalled(status) ==
  status \in {HAWKBIT_UNCONFIRMED_IMAGE, HAWKBIT_UPDATE_INSTALLED}

\* The case of autohandler's switch that reboots.
RebootOn(status) == status = HAWKBIT_UNCONFIRMED_IMAGE

\* autohandler after hawkbit_probe has returned: sys_reboot does not return;
\* otherwise the work item is rescheduled after poll_sleep.  hawkbit_probe
\* zeroes hb_context and hawkbit_results before it reads them, so what a
\* cycle leaves in them is never read again; they are put at zero here.
autohandler ==
  /\ pc = "ret"
  /\ UNCHANGED << init_calls, app >>
  /\ IF RebootOn(hb_context.code_status)
     THEN /\ pc' = "reboot"
          /\ work' = <<>>
          /\ cyc' = [cyc EXCEPT !.rebooted = TRUE]
          /\ UNCHANGED << hb_context, hawkbit_results, probe >>
     ELSE /\ pc' = "scheduled"
          /\ work' = << poll_sleep >>
          /\ cyc' = NoCycle
          /\ hb_context' = ZeroContext
          /\ hawkbit_results' = ZeroResults
          /\ probe' = ZeroLocals
  /\ UNCHANGED << image_confirmed, upgrade_pending, slot1, nvs,
                  poll_sleep, response_buffer_size, installs >>

\* A reboot between two cycles by whoever acts on "Update Installed. Please
\* Reboot".
ExternalReboot ==
  /\ pc = "scheduled"
  /\ UNCHANGED << init_calls, app >>
  /\ pc' = "reboot"
  /\ work' = <<>>
  /\ UNCHANGED << image_confirmed, upgrade_pending, slot1, nvs,
                  poll_sleep, response_buffer_size, hb_context,
                  hawkbit_results, probe, cyc, installs >>

\* The bootloader and C start-up: an armed upgrade boots the new image
\* unconfirmed; otherwise the confirmed image runs (an unconfirmed one is
\* reverted).  Statics get their initial values back.
Boot ==
  /\ pc = "reboot"
  /\ pc' = "boot"
  /\ image_confirmed' = ~upgrade_pending
  /\ upgrade_pending' = FALSE
  /\ poll_sleep' = DefaultPollSleep
  /\ response_buffer_size' = RESPONSE_BUFFER_SIZE
  /\ hb_context' = ZeroContext
  /\ hawkbit_results' = ZeroResults
  /\ probe' = ZeroLocals
  /\ work' = <<>>
  /\ cyc' = NoCycle
  /\ app' = "idle"
  /\ UNCHANGED << slot1, nvs, installs, init_calls >>

Next ==
  \/ hawkbit_init
  \/ hawkbit_autohandler
  \/ probe_start
  \/ probe_poll_base
  \/ probe_cancel_ack
  \/ probe_send_config
  \/ probe_poll_deploy
  \/ probe_report
  \/ probe_download
  \/ autohandler
  \/ ExternalReboot
  \/ Boot

Spec == Init /\ [][Next]_vars

(***************************************************************************)
(* hawkbit_probe called by the application.  hawkbit_probe is a public     *)
(* function without a lock: a thread of the application can call it while  *)
(* the work queue's cycle is blocked in a request or waits for its delay.  *)
(* Of the application's cycle only the head and the exits before the first *)
(* request are modelled, and of the work queue's cycles those that end     *)
(* before the deployment request.                                          *)
(***************************************************************************)
\* The places where the work queue thread is blocked or idle.
WorkerBlocked ==
  pc \in {"scheduled", "poll_base", "cancel_ack", "send_config",
          "poll_deploy", "report", "download"}

\* The head of hawkbit_probe on the application's thread: memset of
\* hb_context and a new response buffer.
direct_probe_enter ==
  /\ app = "idle"
  /\ WorkerBlocked
  /\ app' = "probing"
  /\ hb_context' = [ZeroContext EXCEPT
                      !.response_data =
                        [state |-> "alloc", size |-> RESPONSE_BUFFER_SIZE]]
  /\ UNCHANGED << pc, image_confirmed, upgrade_pending, slot1, nvs,
                  poll_sleep, response_buffer_size, hawkbit_results, probe,
                  work, cyc, installs, init_calls >>

\* The application's call leaves by the error label before its first
\* request: unconfirmed image, no firmware version or identity, or no
\* connection; hb_context.response_data is freed.
direct_probe_return ==
  /\ app = "probing"
  /\ WorkerBlocked
  /\ app' = "idle"
  /\ \E status \in IF ImageUnconfirmed(image_confirmed)
                    THEN {HAWKBIT_UNCONFIRMED_IMAGE}
                    ELSE {HAWKBIT_METADATA_ERROR, HAWKBIT_NETWORKING_ERROR} :
       hb_context' = [hb_context EXCEPT !.code_status = status,
                                        !.response_data.state = "freed"]
  /\ UNCHANGED << pc, image_confirmed, upgrade_pending, slot1, nvs,
                  poll_sleep, response_buffer_size, hawkbit_results, probe,
                  work, cyc, installs, init_calls >>

ConcurrentNext ==
  \/ hawkbit_init
  \/ hawkbit_autohandler
  \/ probe_start
  \/ probe_poll_base
  \/ probe_cancel_ack
  \/ probe_send_config
  \/ autohandler
  \/ ExternalReboot
  \/ Boot
  \/ direct_probe_enter
  \/ direct_probe_return

ConcurrentSpec == Init /\ [][ConcurrentNext]_vars

\* The system work queue runs a submitted work item once its delay is over,
\* and a handler that has been entered runs to its end.
LiveSpec == Spec /\ WF_vars(probe_start) /\ WF_vars(autohandler)

(***************************************************************************)
(* Properties.  A cycle is judged in the state where hawkbit_probe has     *)
(* returned (pc = "ret"): cyc holds what the cycle did, and                *)
(* hb_context.code_status is the value returned.                           *)
(***************************************************************************)
Returned == pc = "ret"

Outcome == hb_context.code_status

\* The requests of one type the cycle made (indices into cyc.reqs).
Reqs(type) == { i \in DOMAIN cyc.reqs : cyc.reqs[i].type = type }

\* Nothing of an install happened in the cycle.
NoInstall ==
  /\ Reqs("HAWKBIT_DOWNLOAD") = {}
  /\ cyc.flash_writes = 0
  /\ cyc.upgrade_calls = 0

\* ---- C1 ----
\* The cycle decoded a deployment descriptor that hawkbit_parse_deployment
\* accepts and whose id is the persisted action id.
C1Case ==
  /\ Returned
  /\ cyc.dep # <<>>
  /\ hawkbit_parse_deployment(cyc.dep[1], 0).ret = 0
  /\ cyc.nvs_at_start = << cyc.dep[1].id >>

\* The {closed, success} POSTs to deploymentBase/<id>/feedback.
FeedbackPosts ==
  { i \in Reqs("HAWKBIT_REPORT") :
      /\ cyc.reqs[i].method = "POST"
      /\ cyc.reqs[i].url = [path |-> "deployment_feedback",
                            action_id |-> cyc.dep[1].id]
      /\ cyc.reqs[i].payload = [id |-> cyc.dep[1].id, execution |-> "closed",
                                finished |-> "success"] }

C1Quiet ==
  /\ Cardinality(FeedbackPosts) = 1
  /\ NoInstall
  /\ cyc.acid_writes = 0
  /\ nvs = cyc.nvs_at_start

\* C1 as stated: a cycle whose accepted deployment id equals the persisted
\* action id makes one {closed, success} feedback POST, returns Ok, and
\* writes no flash, requests no upgrade and leaves the persisted id alone
\* (so the next cycle meets the same persisted id).
C1IdempotentAsStated == C1Case => C1Quiet /\ Outcome = HAWKBIT_OK

\* ---- C2 ----
\* C2: over any sequence of cycles boot_request_upgrade succeeds at most once
\* for any given action id.
C2AtMostOnce == \A i \in DOMAIN installs : installs[i] <= 1

\* ---- C3 ----
\* The base document of the cycle holds a cancelAction and a deploymentBase
\* link.
C3Case ==
  /\ Returned
  /\ cyc.base # <<>>
  /\ ~cyc.base[1].cancelAction.null
  /\ ~cyc.base[1].deploymentBase.null

C3NoDeployment ==
  /\ Reqs("HAWKBIT_PROBE_DEPLOYMENT_BASE") = {}
  /\ Reqs("HAWKBIT_CONFIG_DEVICE") = {}
  /\ NoInstall

C4MalformedCancel ==
  ( /\ Returned
    /\ cyc.base # <<>>
    /\ ~cyc.base[1].cancelAction.null
    /\ hawkbit_find_cancelAction_base(cyc.base[1].cancelAction, 0).ret < 0 )
  => Outcome = HAWKBIT_METADATA_ERROR

\* ---- C5 ----
\* C5: a deployment whose single artifact is larger than the alternate slot
\* ends the cycle with DownloadError, with no flash write and no upgrade
\* request.
C5Oversized ==
  ( /\ Returned
    /\ cyc.dep # <<>>
    /\ cyc.dep[1].id > 0
    /\ cyc.dep[1].num_chunks = 1
    /\ cyc.dep[1].part = "bApp"
    /\ cyc.dep[1].num_artifacts = 1
    /\ cyc.dep[1].size > SLOT1_SIZE )
  => Outcome = HAWKBIT_DOWNLOAD_ERROR /\ NoInstall

\* ---- C6 ----
\* The descriptor faults C6 names.
MalformedDescriptor(d) ==
  \/ d.num_chunks # 1
  \/ d.part # "bApp"
  \/ d.num_artifacts # 1
  \/ d.download_http.null
  \/ ~d.download_http.marker

\* C6: a deployment descriptor with a chunk count other than one, a part
\* other than bApp, an artifact count other than one or a download link that
\* is missing or lacks its marker ends the cycle with MetadataError, with no
\* download, flash write or upgrade request.
C6MalformedDescriptor ==
  ( /\ Returned
    /\ cyc.dep # <<>>
    /\ cyc.dep[1].id > 0
    /\ cyc.dep[1].size <= SLOT1_SIZE
    /\ MalformedDescriptor(cyc.dep[1]) )
  => Outcome = HAWKBIT_METADATA_ERROR /\ NoInstall

\* ---- C7 ----
\* C7: a deployment descriptor with an id of 0 or less leads to no download,
\* no upgrade request and no write of the persisted action id, and a
\* persisted action id is positive.
C7PositiveIds ==
  /\ nvs # <<>> => nvs[1] > 0
  /\ (Returned /\ cyc.dep # <<>> /\ cyc.dep[1].id <= 0)
       => NoInstall /\ cyc.acid_writes = 0

\* ---- C8 ----
\* C8: when hawkbit_probe returns from a cycle that opened the socket, the
\* socket is closed and the response buffer is freed.
C8SessionReleased ==
  (Returned /\ cyc.opened)
  => cyc.sock = "closed" /\ hb_context.response_data.state = "freed"

\* ---- C9 ----
\* C9: a cycle that starts on an unconfirmed image returns UnconfirmedImage
\* with no socket opened, no request made, no flash write, no upgrade request
\* and no write of the persisted action id, and with the response buffer
\* freed.
C9UnconfirmedImage ==
  (Returned /\ ~cyc.confirmed_at_start)
  => /\ Outcome = HAWKBIT_UNCONFIRMED_IMAGE
     /\ ~cyc.opened
     /\ cyc.sock = "none"
     /\ cyc.reqs = <<>>
     /\ cyc.flash_writes = 0
     /\ cyc.upgrade_calls = 0
     /\ cyc.acid_writes = 0
     /\ nvs = cyc.nvs_at_start
     /\ hb_context.response_data.state = "freed"

C9Witness ==
  /\ Returned
  /\ ~cyc.confirmed_at_start
  /\ hb_context.response_data.state = "freed"

\* ---- C10 ----
\* A cycle is under way or has returned.
CycleStarted ==
  pc \in {"poll_base", "cancel_ack", "send_config", "poll_deploy", "report",
          "download", "ret"}

\* C10: after a cycle the autohandler reboots exactly when the outcome is
\* UnconfirmedImage; after any other outcome it reschedules the work item
\* with the current poll_sleep as delay, and unless the device is rebooted
\* first another cycle starts.
C10AutohandlerPolicy ==
  /\ [][Returned =>
          /\ (pc' = "reboot") <=> (Outcome = HAWKBIT_UNCONFIRMED_IMAGE)
          /\ (pc' # "reboot") => pc' = "scheduled" /\ work' = << poll_sleep >>
       ]_vars
  /\ (Returned /\ Outcome # HAWKBIT_UNCONFIRMED_IMAGE) ~> (pc = "scheduled")
  /\ (pc = "scheduled") ~> (CycleStarted \/ pc = "reboot")

C10Witness ==
  /\ pc = "scheduled"
  /\ work = << poll_sleep >>
  /\ poll_sleep = U32Mul(U32(1), MSEC_PER_SEC)

\* ---- C11 ----
\* The value 3600*HH + 60*MM + SS of a sleep string.
Decoded(s) == s.hh * (60 * 60) + s.mm * 60 + s.ss

\* This step decodes a base document with an 8-character sleep string.
SleepRead ==
  /\ pc = "poll_base"
  /\ cyc'.base # <<>>
  /\ ~cyc'.base[1].sleep.null
  /\ cyc'.base[1].sleep.len = 8

\* The autohandler reschedules the work item with poll_sleep as its delay.
DelayIsPollSleep ==
  (Returned /\ pc' = "scheduled") => work' = << poll_sleep >>

\* Outside a reboot, poll_sleep changes only where an 8-character sleep
\* string is decoded.
SleepFrame ==
  (pc # "reboot" /\ ~SleepRead) => poll_sleep' = poll_sleep

\* C11 as stated: a sleep string that parses to s seconds (s >= 0) makes the
\* delay before the next cycle s*1000 ms; an absent sleep string or one of
\* another length leaves poll_sleep as it was.
C11SleepUpdateAsStated ==
  [][ /\ (SleepRead /\ Decoded(cyc'.base[1].sleep) >= 0)
           => poll_sleep' = U32(Decoded(cyc'.base[1].sleep) * MSEC_PER_SEC)
      /\ SleepFrame
      /\ DelayIsPollSleep ]_vars

\* C11 amended: a sleep string that parses to s > 0 seconds makes the delay
\* before the next cycle s*1000 ms; an absent sleep string or one of another
\* length leaves poll_sleep as it was.
C11SleepUpdate ==
  [][ /\ (SleepRead /\ Decoded(cyc'.base[1].sleep) > 0)
           => poll_sleep' = U32(Decoded(cyc'.base[1].sleep) * MSEC_PER_SEC)
      /\ SleepFrame
      /\ DelayIsPollSleep ]_vars

C11Witness ==
  /\ Returned
  /\ cyc.base # <<>>
  /\ cyc.base[1].sleep = SleepStr(8, 0, 0, 1)
  /\ poll_sleep = U32(1000)

\* ---- C12 ----
\* a < b for uint32_t values.
U32Less(a, b) == a.hi < b.hi \/ (a.hi = b.hi /\ a.lo < b.lo)

\* C12: poll_sleep is positive and lies between 2 minutes and 720 minutes.
C12PollIntervalBounds ==
  /\ U32Positive(poll_sleep)
  /\ ~U32Less(poll_sleep, U32Mul(U32(2 * 60), MSEC_PER_SEC))
  /\ ~U32Less(U32Mul(U32(720 * 60), MSEC_PER_SEC), poll_sleep)


\* ---- C13 ----
\* The artifact GET of the cycle got its final chunk.
DownloadFinished ==
  \E i \in Reqs("HAWKBIT_DOWNLOAD") : cyc.reqs[i].ret = 0

\* C13: a cycle calls boot_request_upgrade only if, at the final chunk of
\* the download, downloaded_size equals http_content_size; when they differ
\* the cycle returns HAWKBIT_METADATA_ERROR and no upgrade is pending.
C13DownloadComplete ==
  (Returned /\ DownloadFinished) =>
    /\ cyc.upgrade_calls > 0 =>
         hb_context.dl.downloaded_size = cyc.content_size
    /\ hb_context.dl.downloaded_size # cyc.content_size =>
         /\ Outcome = HAWKBIT_METADATA_ERROR
         /\ cyc.upgrade_calls = 0
         /\ ~upgrade_pending


\* ---- C14 ----
\* hawkbit_init has just returned.
InitReturned == pc = "booted"

\* The calls hawkbit_init made of one bootloader function.
InitCalls(fn) == { i \in DOMAIN init_calls.calls : init_calls.calls[i].fn = fn }

\* boot_write_img_confirmed was called and failed.
ConfirmCallFailed ==
  \E i \in InitCalls("boot_write_img_confirmed") : init_calls.calls[i].ret < 0

\* boot_erase_img_bank was called and failed.
EraseCallFailed ==
  \E i \in InitCalls("boot_erase_img_bank") : init_calls.calls[i].ret # 0

\* C14: a hawkbit_init that found the running image unconfirmed and returned
\* 0 has called boot_write_img_confirmed and then boot_erase_img_bank, both
\* with success; when boot_write_img_confirmed fails the second slot is not
\* erased and hawkbit_init returns an error; when boot_erase_img_bank fails
\* hawkbit_init returns an error; with a confirmed image neither is called.
C14BootConfirmation ==
  InitReturned =>
    /\ (~init_calls.image_ok /\ init_calls.ret = 0) =>
         /\ init_calls.calls =
              << [fn |-> "boot_write_img_confirmed", ret |-> 0],
                 [fn |-> "boot_erase_img_bank", ret |-> 0] >>
         /\ image_confirmed
         /\ slot1 = "erased"
    /\ ConfirmCallFailed =>
         /\ InitCalls("boot_erase_img_bank") = {}
         /\ init_calls.ret < 0
         /\ ~image_confirmed
    /\ EraseCallFailed => init_calls.ret # 0
    /\ init_calls.image_ok => init_calls.calls = <<>>

\* An unconfirmed image with a written second slot was confirmed and the
\* slot erased.
C14Witness ==
  /\ InitReturned
  /\ ~init_calls.image_ok
  /\ init_calls.ret = 0
  /\ Len(init_calls.calls) = 2
  /\ slot1 = "erased"
  /\ installs # [i \in 1 .. MaxId |-> 0]


\* ---- C15 ----
\* The place of a step in POLL_BASE, (CANCEL_ACK | SEND_CONFIG), POLL_DEPLOY,
\* DOWNLOAD, ARM_BOOT, PERSIST_ACTION_ID; 0 for a step not in the list.
StepRank(step) ==
  CASE step = "POLL_BASE" -> 1
    [] step \in {"CANCEL_ACK", "SEND_CONFIG"} -> 2
    [] step = "POLL_DEPLOY" -> 3
    [] step = "DOWNLOAD" -> 4
    [] step = "ARM_BOOT" -> 5
    [] step = "PERSIST_ACTION_ID" -> 6
    [] OTHER -> 0

\* The positions in cyc.steps of the steps of the list.
ListedSteps == { i \in DOMAIN cyc.steps : StepRank(cyc.steps[i]) > 0 }

StepAt(name) == { i \in DOMAIN cyc.steps : cyc.steps[i] = name }

\* C15: the steps of a cycle come in the order POLL_BASE, (CANCEL_ACK or
\* SEND_CONFIG), POLL_DEPLOY, DOWNLOAD, ARM_BOOT, PERSIST_ACTION_ID, each at
\* most once; boot_request_upgrade is called only after the download request
\* has returned, no config PUT follows a deployment fetch, and the action id
\* is written only after boot_request_upgrade has succeeded.
C15StepOrder ==
  /\ \A i, j \in ListedSteps :
       i < j => StepRank(cyc.steps[i]) < StepRank(cyc.steps[j])
  /\ \A i \in StepAt("ARM_BOOT") :
       \E j \in Reqs("HAWKBIT_DOWNLOAD") : cyc.reqs[j].ret = 0 /\ j < i
  /\ (cyc.upgrade_calls > 0) = (StepAt("ARM_BOOT") # {})
  /\ \A i \in StepAt("SEND_CONFIG") :
       \A j \in StepAt("POLL_DEPLOY") : i < j
  /\ \A i \in StepAt("PERSIST_ACTION_ID") :
       /\ \E j \in StepAt("ARM_BOOT") : j < i
       /\ cyc.upgrade_ok
  /\ (cyc.acid_writes > 0) = (StepAt("PERSIST_ACTION_ID") # {})

\* A cycle that went through every step of an install after a config PUT.
C15Witness ==
  /\ Returned
  /\ cyc.steps = << "POLL_BASE", "SEND_CONFIG", "POLL_DEPLOY", "DOWNLOAD",
                    "ARM_BOOT", "PERSIST_ACTION_ID" >>


\* ---- C16 ----
\* C16: when hawkbit_probe returns HAWKBIT_UPDATE_INSTALLED,
\* boot_request_upgrade(BOOT_UPGRADE_TEST) was called exactly once in the
\* cycle and succeeded, and the persisted action id is the id of the
\* deployment just downloaded.
C16FreshInstall ==
  (Returned /\ Outcome = HAWKBIT_UPDATE_INSTALLED) =>
    /\ cyc.upgrade_calls = 1
    /\ cyc.upgrade_ok
    /\ cyc.dep # <<>>
    /\ nvs = << cyc.dep[1].id >>


\* ---- C17 ----
\* C17: a cycle writes the persisted action id at most once, and only when
\* its boot_request_upgrade succeeded; a cycle that returns anything other
\* than HAWKBIT_UPDATE_INSTALLED leaves the persisted action id as it was.
C17PersistedIdFrame ==
  Returned =>
    /\ cyc.acid_writes <= 1
    /\ cyc.acid_writes = 1 => (cyc.upgrade_calls = 1 /\ cyc.upgrade_ok)
    /\ Outcome # HAWKBIT_UPDATE_INSTALLED =>
         /\ cyc.acid_writes = 0
         /\ nvs = cyc.nvs_at_start
    /\ cyc.acid_writes = 0 => nvs = cyc.nvs_at_start

\* A cycle over a persisted id whose boot_request_upgrade was rejected after
\* the download.
C17Witness ==
  /\ Returned
  /\ cyc.nvs_at_start # <<>>
  /\ cyc.upgrade_calls = 1
  /\ ~cyc.upgrade_ok
  /\ Outcome = HAWKBIT_DOWNLOAD_ERROR
  /\ nvs = cyc.nvs_at_start

\* ---- C18 ----
\* http_client_req failed for the artifact GET.
DownloadRequestFailed ==
  \E i \in Reqs("HAWKBIT_DOWNLOAD") : cyc.reqs[i].ret < 0

\* boot_request_upgrade was called and rejected.
UpgradeCallRejected == cyc.upgrade_calls > 0 /\ ~cyc.upgrade_ok

\* What holds in both failure cases whatever the outcome is.
C18Frame ==
  /\ cyc.flash_failed => cyc.upgrade_calls = 0
  /\ (cyc.flash_failed \/ UpgradeCallRejected) =>
       /\ nvs = cyc.nvs_at_start
       /\ cyc.acid_writes = 0
  /\ UpgradeCallRejected => Outcome = HAWKBIT_DOWNLOAD_ERROR

\* C18 as stated: a flash write error during the download, or a rejected
\* boot_request_upgrade after it, makes the cycle return
\* HAWKBIT_DOWNLOAD_ERROR; after a flash write error boot_request_upgrade is
\* not called; the persisted action id is unchanged in both cases.
C18DownloadFailureAsStated ==
  Returned =>
    /\ C18Frame
    /\ cyc.flash_failed => Outcome = HAWKBIT_DOWNLOAD_ERROR

\* C18, amended: as above, except that after a flash write error the cycle
\* returns HAWKBIT_NETWORKING_ERROR when the artifact request itself fails.
C18DownloadFailure ==
  Returned =>
    /\ C18Frame
    /\ cyc.flash_failed =>
         Outcome = IF DownloadRequestFailed
                   THEN HAWKBIT_NETWORKING_ERROR
                   ELSE HAWKBIT_DOWNLOAD_ERROR

\* A download over a persisted id that completed with a flash write error.
C18Witness ==
  /\ Returned
  /\ cyc.flash_failed
  /\ ~DownloadRequestFailed
  /\ cyc.flash_writes > 0
  /\ cyc.nvs_at_start # <<>>
  /\ Outcome = HAWKBIT_DOWNLOAD_ERROR


\* ---- C20 ----
\* The base poll was decoded and holds neither a cancelAction nor a
\* deploymentBase link.
C20Case ==
  /\ cyc.base # <<>>
  /\ cyc.base[1].cancelAction.null
  /\ cyc.base[1].deploymentBase.null

\* No deployment fetch, download, flash write, upgrade request or write of
\* the persisted id.
C20Nothing ==
  /\ Reqs("HAWKBIT_PROBE_DEPLOYMENT_BASE") = {}
  /\ NoInstall
  /\ cyc.acid_writes = 0
  /\ nvs = cyc.nvs_at_start

\* http_client_req failed for the configData PUT.
ConfigRequestFailed ==
  \E i \in Reqs("HAWKBIT_CONFIG_DEVICE") : cyc.reqs[i].ret < 0

WorkerInCycle ==
  pc \in {"poll_base", "cancel_ack", "send_config", "poll_deploy",
          "report", "download"}

\* C19: no cycle begins before the one before it has returned, so hb_context
\* is never used by two calls of hawkbit_probe at once, whether a call comes
\* from the autohandler's work item or from the application.
C19NonReentrant == ~(WorkerInCycle /\ app = "probing")


\* ---- C21 ----
\* The cycle began with an empty action-id store and decoded a deployment
\* descriptor that hawkbit_parse_deployment accepts, with a positive id.
C21Case ==
  /\ cyc.nvs_at_start = <<>>
  /\ cyc.dep # <<>>
  /\ hawkbit_parse_deployment(cyc.dep[1], 0).ret = 0
  /\ cyc.dep[1].id > 0

\* C21: on a device whose action-id store was never written, a deployment
\* with a positive id is treated as new: the cycle goes on to the download
\* and never to the feedback of an installed deployment.
C21FreshDevice ==
  C21Case =>
    /\ pc # "report"
    /\ Reqs("HAWKBIT_REPORT") = {}
    /\ Returned => Reqs("HAWKBIT_DOWNLOAD") # {}


\* ---- C22 ----
\* The last request of the cycle.
LastReq == cyc.reqs[Len(cyc.reqs)]

\* The final call of response_cb for the cycle's last JSON poll found the
\* accumulated length different from Content-Length, or json_obj_parse
\* failed.
C22Case ==
  /\ Returned
  /\ cyc.json_error

\* The poll that failed is the last request, and the persisted id is as it
\* was.
C22Stopped ==
  /\ Outcome = HAWKBIT_METADATA_ERROR
  /\ LastReq.type \in {"HAWKBIT_PROBE", "HAWKBIT_PROBE_DEPLOYMENT_BASE"}
  /\ LastReq.ret = 0
  /\ NoInstall
  /\ Reqs("HAWKBIT_REPORT") = {}
  /\ cyc.acid_writes = 0
  /\ nvs = cyc.nvs_at_start

\* C22 as stated: after a length mismatch at the final slice or a failed
\* decode of the base poll or the deployment poll the cycle returns
\* HAWKBIT_METADATA_ERROR, makes no further request, and leaves poll_sleep
\* and the persisted action id unchanged.
C22AssemblerErrorAsStated ==
  C22Case =>
    /\ C22Stopped
    /\ ~cyc.sleep_changed

\* C22, amended: as above, but poll_sleep is unchanged by the failing poll
\* only; when the deployment poll fails, a sleep value stored after the base
\* poll of the same cycle stays.
C22AssemblerError ==
  C22Case =>
    /\ C22Stopped
    /\ cyc.sleep_changed => LastReq.type = "HAWKBIT_PROBE_DEPLOYMENT_BASE"

\* A deployment poll that failed in response_cb after the base poll of the
\* cycle had changed poll_sleep.
C22Witness ==
  /\ C22Case
  /\ LastReq.type = "HAWKBIT_PROBE_DEPLOYMENT_BASE"
  /\ cyc.sleep_changed
  /\ Outcome = HAWKBIT_METADATA_ERROR


\* ---- C23 ----
\* C23: a base-poll or deployment-poll response that comes in k >= 1 slices
\* whose lengths sum to Content-Length is accumulated whole, the final slice
\* included, so that response_cb finds no length mismatch at the final call.
C23AccumulationComplete == cyc.json_whole >= 1 => ~cyc.json_error


\* ---- C24 ----
\* download_progress before the i-th call of response_cb of the download.
ProgressBefore(i) ==
  IF i = 1 THEN 0 ELSE cyc.slices[i - 1].download_progress

C25NonPositiveIgnored ==
  ( /\ cyc.base # <<>>
    /\ ~cyc.base[1].sleep.null
    /\ cyc.base[1].sleep.len = 8
    /\ Decoded(cyc.base[1].sleep) <= 0 ) => ~cyc.sleep_changed


\* C26: response buffer bound -- in every probe cycle the bytes accumulated in
\* the JSON response buffer plus the terminating NUL fit the buffer's
\* allocated size, and the capacity response_cb tracks equals the allocated
\* size, also in a cycle that follows one in which the buffer was doubled.
C26BufferBound ==
  /\ ~cyc.overrun
  /\ hb_context.response_data.state = "alloc" =>
       response_buffer_size = hb_context.response_data.size


\* ---- C27 ----
\* The deployment feedback POSTs of the cycle, whatever their result.
ReportPosts ==
  { i \in Reqs("HAWKBIT_REPORT") : cyc.reqs[i].method = "POST" }

\* C27: a cycle returns Ok only if it issued the deployment feedback POST;
\* in particular a cycle that reached the report step and could not build the
\* feedback message issues no POST and does not return Ok.
C27OkImpliesFeedback ==
  (Returned /\ Outcome = HAWKBIT_OK) => ReportPosts # {}


\* ---- C28 ----
\* C28: in any cycle the bytes appended to the alternate slot during the
\* download never exceed the artifact size declared in the deployment
\* descriptor, whatever Content-Length and body the server sends.
C28FlashWriteBound ==
  \A i \in DOMAIN cyc.slices :
    /\ cyc.dep # <<>>
    /\ cyc.slices[i].downloaded_size <=
         hawkbit_parse_deployment(cyc.dep[1], 0).file_size

====
